---- MODULE Spec2Model ----
(***************************************************************************)
(* Session orchestration layer of econagents: the receive loop and event   *)
(* pipeline (core/manager/base.py), the phase state machine with its       *)
(* continuous-loop tasks (core/manager/phase.py) and the event-to-state    *)
(* synchronisation (core/state/game.py).                                   *)
(*                                                                         *)
(* Python None is encoded as the integer NoPhase (-1) where a phase is     *)
(* expected, so that it can be compared with phase numbers.                *)
(***************************************************************************)
EXTENDS Integers, Sequences, FiniteSets, TLC

\* ----------------------------------------------------------------------
\* Bounds of the model
\* ----------------------------------------------------------------------
MaxPhase == 3      \* phases carried by events are 1..MaxPhase
MaxTasks == 2      \* continuous-loop tasks that exist at the same time
MaxHooks == 2      \* callables registered in one scope of the pipeline
MaxRaises == 2     \* callables that raise while one event is dispatched
MaxValue == 2      \* payload values of the non-phase keys are 1..MaxValue
MaxSends == 2      \* send_message calls of one session, the login included
MaxStops == 2      \* stop() calls of one session
MaxRegistered == 3 \* callables registered in all scopes together
MaxGamePhases == 6 \* phases of a game specification
MaxNextCalls == 3  \* next_phase calls made outside run_experiment
MaxEvents == 3          \* transition events handled by the two managers compared

\* ----------------------------------------------------------------------
\* Configuration of the session
\* ----------------------------------------------------------------------
NoPhase == -1
Phases == 1..MaxPhase
continuous_phases == {1, 3}
phase_transition_event == "phase-transition"
phase_identifier_key == "phase"
EventTypes == {"phase-transition", "round-result"}
\* phases for which register_phase_handler was called before the session started
phase_handlers == {3}
CustomEventTypes == {"custom_event"}

EmptyData == << >>
Max(a, b) == IF a > b THEN a ELSE b
Get(data, key) == IF key \in DOMAIN data THEN data[key] ELSE NoPhase

\* ----------------------------------------------------------------------
\* State synchronisation (core/state/game.py)
\* ----------------------------------------------------------------------
NoList == [has |-> FALSE, vals |-> {}]
List(s) == [has |-> TRUE, vals |-> s]

\* PropertyMapping(...): the arguments of the constructor; the two event lists
\* are the fields that EventField declares (fields.py:12-13)
Mapping(event_key, state_key, state_type, phases, exclude_phases, events, exclude_events) ==
  [event_key |-> event_key, state_key |-> state_key, state_type |-> state_type,
   phases |-> phases, exclude_phases |-> exclude_phases,
   events |-> events, exclude_events |-> exclude_events]

\* get_property_mappings of the state class of the session, in declaration order
PropertyMaps ==
  << Mapping("phase", "phase", "meta", NoList, NoList, NoList, NoList),
     Mapping("wallet", "wallet", "private", List({1, 2}), NoList, List({"round-result"}), NoList),
     Mapping("price", "price", "public", NoList, List({2}), NoList, NoList),
     Mapping("wallet", "price", "public", NoList, NoList, NoList, List({"round-result"})) >>

InitGameState ==
  [meta |-> [phase |-> 0, game_id |-> 0],
   private_information |-> [wallet |-> 0],
   public_information |-> [price |-> 0],
   custom_handler_called |-> FALSE]

\* game.py:32
BothPhaseListsNever(mapping) == FALSE
BothPhaseLists(mapping) == mapping.phases.has /\ mapping.exclude_phases.has

\* the same validation for the two event lists
BothEventLists(mapping) == mapping.events.has /\ mapping.exclude_events.has

\* PropertyMapping.model_post_init: TRUE when it raises ValueError
model_post_init(mapping) == BothPhaseLists(mapping) \/ BothEventLists(mapping)

should_apply_in_phase_exclude_inverted(mapping, current) ==
  IF mapping.phases.has THEN current \in mapping.phases.vals
  ELSE IF mapping.exclude_phases.has THEN current \in mapping.exclude_phases.vals
  ELSE TRUE
should_apply_in_phase(mapping, current) ==
  IF mapping.phases.has THEN current \in mapping.phases.vals
  ELSE IF mapping.exclude_phases.has THEN current \notin mapping.exclude_phases.vals
  ELSE TRUE

should_apply_in_event(mapping, event_type) ==
  IF mapping.events.has THEN event_type \in mapping.events.vals
  ELSE IF mapping.exclude_events.has THEN event_type \notin mapping.exclude_events.vals
  ELSE TRUE

\* game.py:113-118
SetAttr(gs, mapping, value) ==
  IF mapping.state_type = "meta"
  THEN [gs EXCEPT !.meta[mapping.state_key] = value]
  ELSE IF mapping.state_type = "private"
  THEN [gs EXCEPT !.private_information[mapping.state_key] = value]
  ELSE IF mapping.state_type = "public"
  THEN [gs EXCEPT !.public_information[mapping.state_key] = value]
  ELSE gs

RECURSIVE ApplyMappingsFirstMatch(_, _, _)
ApplyMappingsFirstMatch(gs, event, i) ==
  IF i > Len(PropertyMaps) THEN gs
  ELSE IF /\ should_apply_in_phase(PropertyMaps[i], gs.meta.phase)
          /\ should_apply_in_event(PropertyMaps[i], event.event_type)
          /\ PropertyMaps[i].event_key \in DOMAIN event.data
       THEN SetAttr(gs, PropertyMaps[i], event.data[PropertyMaps[i].event_key])
       ELSE ApplyMappingsFirstMatch(gs, event, i + 1)

RECURSIVE ApplyMappingsPhaseOnly(_, _, _)
ApplyMappingsPhaseOnly(gs, event, i) ==
  IF i > Len(PropertyMaps) THEN gs
  ELSE LET mapping == PropertyMaps[i]
           gs1 == IF ~should_apply_in_phase(mapping, gs.meta.phase) THEN gs
                  ELSE IF mapping.event_key \notin DOMAIN event.data THEN gs
                  ELSE SetAttr(gs, mapping, event.data[mapping.event_key])
       IN ApplyMappingsPhaseOnly(gs1, event, i + 1)

RECURSIVE ApplyMappingsDefault(_, _, _)
ApplyMappingsDefault(gs, event, i) ==
  IF i > Len(PropertyMaps) THEN gs
  ELSE LET mapping == PropertyMaps[i]
           gs1 == IF ~should_apply_in_phase(mapping, gs.meta.phase) THEN gs
                  ELSE IF ~should_apply_in_event(mapping, event.event_type) THEN gs
                  ELSE IF mapping.event_key \notin DOMAIN event.data
                  THEN SetAttr(gs, mapping, 0)
                  ELSE SetAttr(gs, mapping, event.data[mapping.event_key])
       IN ApplyMappingsDefault(gs1, event, i + 1)

RECURSIVE ApplyMappingsStalePhase(_, _, _)
ApplyMappingsStalePhase(gs, event, i) ==
  IF i > Len(PropertyMaps) THEN gs
  ELSE LET mapping == PropertyMaps[i]
           applies == /\ should_apply_in_phase(mapping, gs.meta.phase)
                      /\ should_apply_in_event(mapping, event.event_type)
                      /\ mapping.event_key \in DOMAIN event.data
           writesPhase == mapping.state_type = "meta" /\ mapping.state_key = "phase"
           rest == ApplyMappingsStalePhase(
                     IF applies /\ ~writesPhase
                     THEN SetAttr(gs, mapping, event.data[mapping.event_key]) ELSE gs,
                     event, i + 1)
       IN IF applies /\ writesPhase
          THEN SetAttr(rest, mapping, event.data[mapping.event_key]) ELSE rest

\* the for loop of update_state from mapping i on (game.py:101-118)
RECURSIVE ApplyMappings(_, _, _)
ApplyMappings(gs, event, i) ==
  IF i > Len(PropertyMaps) THEN gs
  ELSE LET mapping == PropertyMaps[i]
           gs1 == IF ~should_apply_in_phase(mapping, gs.meta.phase) THEN gs
                  ELSE IF ~should_apply_in_event(mapping, event.event_type) THEN gs
                  ELSE IF mapping.event_key \notin DOMAIN event.data THEN gs
                  ELSE SetAttr(gs, mapping, event.data[mapping.event_key])
       IN ApplyMappings(gs1, event, i + 1)

get_custom_handlers == CustomEventTypes

handle_custom_event(gs, event_type, data) ==
  [gs EXCEPT !.custom_handler_called = TRUE,
             !.meta.game_id = IF "game_id" \in DOMAIN data THEN data["game_id"] ELSE 0]

HasCustomHandlerNever(event_type) == FALSE
HasCustomHandler(event_type) == event_type \in get_custom_handlers

update_state(gs, event) ==
  IF HasCustomHandler(event.event_type)
  THEN handle_custom_event(gs, event.event_type, event.data)
  ELSE ApplyMappings(gs, event, 1)

CustomCallOf(event) ==
  IF HasCustomHandler(event.event_type)
  THEN << [event_type |-> event.event_type, data |-> event.data] >>
  ELSE << >>

\* ----------------------------------------------------------------------
\* State of the session
\* ----------------------------------------------------------------------
VARIABLES
  reg,                  \* the six registries of AgentManager
  wsOpen,               \* the connection is open
  pc,                   \* receive loop: "recv", "dispatch" or "closed"
  msg,                  \* the Message being handled by the receive loop
  stage, idx,           \* position of on_event: stage 1..6 (7 = returned), index in its list
  callLog,              \* callables invoked for the event being dispatched
  raisedAt,             \* positions of callLog whose callable raised
  inflight,             \* on_event invocations started and not yet returned
  stopped,              \* stop() has been called
  current_phase,        \* PhaseManager.current_phase
  in_continuous_phase,  \* PhaseManager.in_continuous_phase
  continuous_task,      \* PhaseManager._continuous_task (0 = None)
  tasks,                \* the asyncio tasks running _continuous_phase_loop
  hstat,                \* where handle_phase_transition is suspended
  new_phase,            \* its argument
  old_phase,            \* its local old_phase
  phaseLog,             \* what it has done for the transition being handled
  lastTransPhase,       \* phase carried by the most recent transition event
  gstate,               \* the GameState snapshot
  customCall,           \* arguments of the custom handler call of the last update
  stEvent,              \* the event of the last update of the snapshot
  built,                \* the last PropertyMapping(...) call: its arguments and outcome
  verdict,              \* the last should_apply_in_phase / should_apply_in_event calls
  agent_role,           \* an AgentRole is configured (FALSE = None)
  action,               \* the execute_phase_action call of handle_phase_transition
  ws,                   \* AgentManager.ws is set (FALSE = None)
  running,              \* AgentManager.running
  connected,            \* what connect() returned ("pending" before it returns)
  sendLog,              \* the send_message calls: text and outcome
  stop_calls,           \* number of stop() calls made
  regOp,                \* the last unregister_* call: its scope and arguments
  nphases,              \* GameManager: len(self.game.phases)
  current_phase_index,  \* GameManager.current_phase_index
  rstat,                \* ExperimentRunner.run_experiment: "new", "running", "finished", "error"
  steps,                \* ExperimentRunner.step calls made by run_experiment
  next_calls,           \* next_phase calls made outside run_experiment
  manager_state,        \* PhaseManager._state is set (FALSE = None)
  transition_event,     \* PhaseManager._phase_transition_event
  evt,                  \* the transition event given to both managers, and who has handled it
  pm,                   \* a PhaseManager: its fields and the phases it executed an action for
  legacy                \* a TurnBasedWithContinuousManager: the same

pipeVars == <<reg, wsOpen, pc, msg, stage, idx, callLog, raisedAt, inflight, stopped>>
phaseVars == <<current_phase, in_continuous_phase, continuous_task, tasks, hstat,
               new_phase, old_phase, phaseLog, lastTransPhase>>
stateVars == <<gstate, customCall, stEvent>>
mapVars == <<built, verdict>>
actVars == <<agent_role, action>>
connVars == <<ws, running, connected, sendLog>>
gameVars == <<nphases, current_phase_index, rstat, steps, next_calls>>
cfgVars == <<manager_state, transition_event>>
legacyVars == <<evt, pm, legacy>>
extVars == <<gameVars, cfgVars, legacyVars>>
vars == <<pipeVars, phaseVars, stateVars, mapVars, actVars, connVars, stop_calls, regOp, extVars>>

\* ----------------------------------------------------------------------
\* Frames and messages (core/manager/base.py, core/events.py)
\* ----------------------------------------------------------------------
NoMsg == [msg_type |-> "<None>", event_type |-> "", data |-> EmptyData]
\* msg.get(...) on a JSON value that is not an object raises AttributeError,
\* which the except clause of _extract_message_data does not catch
ParseError == [msg_type |-> "<AttributeError>", event_type |-> "", data |-> EmptyData]

\* a frame: text that is not JSON, a JSON value that is not an object (an
\* array, a number, null), or a JSON object
Malformed == [json |-> FALSE, dict |-> FALSE, obj |-> << >>]
NonObject == [json |-> TRUE, dict |-> FALSE, obj |-> << >>]
JsonObject(obj) == [json |-> TRUE, dict |-> TRUE, obj |-> obj]
JsonFrame(type, eventType, data) ==
  JsonObject([type |-> type, eventType |-> eventType, data |-> data])

\* json.loads + the three msg.get(...) of _extract_message_data; None is NoMsg
extract_message_data(frame) ==
  IF ~frame.json THEN NoMsg
  ELSE IF ~frame.dict THEN ParseError
  ELSE [msg_type |-> IF "type" \in DOMAIN frame.obj THEN frame.obj.type ELSE "",
        event_type |-> IF "eventType" \in DOMAIN frame.obj THEN frame.obj.eventType ELSE "",
        data |-> IF "data" \in DOMAIN frame.obj THEN frame.obj.data ELSE EmptyData]

PhaseDatas == {EmptyData} \cup {("phase" :> p) : p \in Phases \cup {NoPhase}}
Frames ==
  {Malformed,
   NonObject,
   JsonObject(<< >>),
   JsonFrame("notification", phase_transition_event, ("phase" :> 1)),
   JsonFrame("event", "round-result", EmptyData)} \cup
  {JsonFrame("event", phase_transition_event, d) : d \in PhaseDatas}
PipeFrames ==
  {Malformed} \cup
  {JsonFrame(t, e, EmptyData) : t \in {"event", "notification"}, e \in EventTypes}

\* ----------------------------------------------------------------------
\* The event pipeline (AgentManager.on_event, _execute_hooks)
\* ----------------------------------------------------------------------
Scopes == {"global_pre", "pre", "global_handlers", "handlers", "post", "global_post"}
StageOrderHandlersFirst == <<"global_handlers", "handlers", "global_pre", "pre", "post", "global_post">>
StageOrder == <<"global_pre", "pre", "global_handlers", "handlers", "post", "global_post">>

User(scope, n) == [kind |-> "user", scope |-> scope, n |-> n]
UpdateStateHook == [kind |-> "_update_state", scope |-> "global_pre", n |-> 0]
TransitionHandler == [kind |-> "_on_phase_transition_event", scope |-> "handlers", n |-> 0]

Keyed(r, scope, event_type) ==
  IF event_type \in DOMAIN r[scope] THEN r[scope][event_type] ELSE << >>

StageList(r, scope, event_type) ==
  IF scope \in {"global_pre", "global_handlers", "global_post"} THEN r[scope]
  ELSE Keyed(r, scope, event_type)

\* first callable at or after (si, i); <<7, 1>> when on_event has nothing left
RECURSIVE Seek(_, _, _, _)
Seek(r, event_type, si, i) ==
  IF si > 6 THEN <<7, 1>>
  ELSE IF i <= Len(StageList(r, StageOrder[si], event_type)) THEN <<si, i>>
  ELSE Seek(r, event_type, si + 1, 1)

\* _execute_hooks: the try/except is inside the for loop
NextAfterAbortList(r, event_type, si, i, raised) ==
  IF raised THEN Seek(r, event_type, si + 1, 1) ELSE Seek(r, event_type, si, i + 1)
NextAfter(r, event_type, si, i, raised) == Seek(r, event_type, si, i + 1)

Cur == StageList(reg, StageOrder[stage], msg.event_type)[idx]

IsPrefix(s, t) == Len(s) <= Len(t) /\ SubSeq(t, 1, Len(s)) = s

\* base.py:106: `except Exception` around each call keeps the error in _execute_hooks
PropagatesWhenRaised(raised) == raised
Propagates(raised) == FALSE

\* the pipeline moves past the callable that has just returned or raised; an
\* error that left on_event would end the receive loop (base.py:305-307)
Advance(raised) ==
  LET p == NextAfter(reg, msg.event_type, stage, idx, raised)
  IN IF Propagates(raised)
     THEN stage' = 7 /\ idx' = 1 /\ pc' = "closed" /\ inflight' = inflight - 1
     ELSE /\ stage' = p[1]
          /\ idx' = p[2]
          /\ IF p[1] > 6
             THEN pc' = "recv" /\ inflight' = inflight - 1
             ELSE pc' = "dispatch" /\ inflight' = inflight

\* ----------------------------------------------------------------------
\* The phase state machine (PhaseManager)
\* ----------------------------------------------------------------------
NoTask == 0
TaskIds == 1..MaxTasks
FreeTask == [st |-> "free", phase |-> NoPhase, cancels |-> 0]
NoTransition == -2

\* a task that can still run the body of its loop
RunningStates == {"sleeping", "acting"}
AliveTasks == {t \in TaskIds : tasks[t].st \in RunningStates}
UsedTasks == {t \in TaskIds : tasks[t].st # "free"}

\* Task.cancel(): a request; the task ends when CancelledError is delivered
Cancel(ts, t) ==
  IF t \in DOMAIN ts /\ ts[t].st # "free"
  THEN [ts EXCEPT ![t].st = "cancelled", ![t].cancels = @ + 1]
  ELSE ts

FreeSlot(ts) == CHOOSE t \in TaskIds : ts[t].st = "free" /\ \A u \in 1..(t - 1) : ts[u].st # "free"

\* phase.py:228
ShouldStopContinuous(inc, new, cur) == inc /\ new # cur

\* phase.py:248
IsContinuousPhaseNever(p) == FALSE
IsContinuousPhase(p) == continuous_phases # {} /\ p \in continuous_phases

\* phase.py:273 (negated break condition)
LoopMayActAlways(inc, cur, p) == TRUE
LoopMayAct(inc, cur, p) == ~(~inc \/ cur # p)

\* phase.py:237
CallsPhaseEndAlways(old) == TRUE
CallsPhaseEnd(old) == old # NoPhase

\* phase.py:243
CallsPhaseStartAlways(np) == TRUE
CallsPhaseStart(np) == np # NoPhase

Entry(op, ph) == [op |-> op, ph |-> ph]

\* execute_phase_action (phase.py:376-389): the callables it awaits
ActionCallablesBoth(phase, handlers, agent) ==
  (IF phase \in handlers THEN {"phase_handler"} ELSE {}) \cup
  (IF agent THEN {"handle_phase"} ELSE {})
ActionCallablesNoAgentTest(phase, handlers, agent) ==
  IF phase \in handlers THEN {"phase_handler"} ELSE {"handle_phase"}
ActionCallables(phase, handlers, agent) ==
  IF phase \in handlers THEN {"phase_handler"}
  ELSE IF agent THEN {"handle_phase"}
  ELSE {}

\* phase.py:388: a payload is sent when it is truthy (not None, not {})
SendsPayload(payload) == payload = "full"

NoAction == [calls |-> {}, phase |-> NoPhase, payload |-> "none", sends |-> 0]
\* the call has started: its callable is awaited, or there is none and it is over
StartAction(phase) ==
  LET calls == ActionCallables(phase, phase_handlers, agent_role)
  IN [calls |-> calls, phase |-> phase,
      payload |-> IF calls = {} THEN "none" ELSE "pending", sends |-> 0]
\* the callable has returned payload: send_message(json.dumps(payload)) if truthy
EndAction(a, payload) ==
  [a EXCEPT !.payload = payload, !.sends = IF SendsPayload(payload) THEN 1 ELSE 0]
Payloads == {"empty", "full"}

\* phase.py:241-245: set current_phase, then on_phase_start unless the phase is None
SetPhase(np, log) ==
  /\ current_phase' = np
  /\ IF ~CallsPhaseStart(np)
     THEN /\ hstat' = "returned"
          /\ phaseLog' = Append(log, Entry("set", np))
          /\ Advance(FALSE)
     ELSE /\ hstat' = "on_phase_start"
          /\ phaseLog' = log \o <<Entry("set", np), Entry("on_phase_start", np)>>
          /\ UNCHANGED <<stage, idx, pc, inflight>>

\* _on_phase_transition_event and handle_phase_transition up to its first await
TransitionBegin ==
  /\ pc = "dispatch"
  /\ Cur = TransitionHandler
  /\ hstat \in {"idle", "returned", "raised"}
  /\ LET np == Get(msg.data, phase_identifier_key)
         stopc == ShouldStopContinuous(in_continuous_phase, np, current_phase)
     IN /\ new_phase' = np
        /\ lastTransPhase' = np
        /\ old_phase' = current_phase
        /\ callLog' = Append(callLog, Cur)
        /\ in_continuous_phase' = IF stopc THEN FALSE ELSE in_continuous_phase
        /\ tasks' = IF stopc /\ continuous_task # NoTask
                    THEN Cancel(tasks, continuous_task) ELSE tasks
        /\ continuous_task' = IF stopc THEN NoTask ELSE continuous_task
        /\ action' = NoAction
        /\ IF CallsPhaseEnd(current_phase)
           THEN /\ hstat' = "on_phase_end"
                /\ phaseLog' = <<Entry("on_phase_end", current_phase)>>
                /\ UNCHANGED <<current_phase, stage, idx, pc, inflight>>
           ELSE SetPhase(np, << >>)
  /\ UNCHANGED <<reg, wsOpen, msg, raisedAt, stopped, stateVars, mapVars, connVars, stop_calls, regOp, agent_role, extVars>>

\* the exception leaves handle_phase_transition and is caught by _execute_hooks
HandlerRaises ==
  /\ hstat' = "raised"
  /\ raisedAt' = raisedAt \cup {Len(callLog)}
  /\ Advance(TRUE)

\* on_phase_end returns or raises (phase.py:238)
PhaseEndReturn(raise) ==
  /\ hstat = "on_phase_end"
  /\ IF raise
     THEN HandlerRaises /\ UNCHANGED <<current_phase, phaseLog>>
     ELSE SetPhase(new_phase, phaseLog) /\ UNCHANGED raisedAt
  /\ UNCHANGED <<reg, wsOpen, msg, callLog, stopped, in_continuous_phase,
                 continuous_task, tasks, new_phase, old_phase, lastTransPhase, stateVars, mapVars, connVars, stop_calls, regOp, actVars, extVars>>

\* on_phase_start returns or raises; then the loop is spawned for a continuous
\* phase and execute_phase_action is awaited (phase.py:245-256)
PhaseStartReturn(raise) ==
  /\ hstat = "on_phase_start"
  /\ IF raise
     THEN /\ HandlerRaises
          /\ UNCHANGED <<in_continuous_phase, continuous_task, tasks, phaseLog, action>>
     ELSE /\ action' = StartAction(new_phase)
          /\ IF action'.calls = {}
             THEN hstat' = "returned" /\ Advance(FALSE)
             ELSE hstat' = "execute_phase_action" /\ UNCHANGED <<stage, idx, pc, inflight>>
          /\ IF IsContinuousPhase(new_phase)
             THEN LET t == FreeSlot(tasks)
                  IN /\ in_continuous_phase' = TRUE
                     /\ tasks' = [tasks EXCEPT ![t] = [st |-> "sleeping", phase |-> new_phase, cancels |-> 0]]
                     /\ continuous_task' = t
                     /\ phaseLog' = phaseLog \o <<Entry("create_task", new_phase),
                                                  Entry("execute_phase_action", new_phase)>>
             ELSE /\ phaseLog' = Append(phaseLog, Entry("execute_phase_action", new_phase))
                  /\ UNCHANGED <<in_continuous_phase, continuous_task, tasks>>
          /\ UNCHANGED raisedAt
  /\ UNCHANGED <<reg, wsOpen, msg, callLog, stopped, current_phase,
                 new_phase, old_phase, lastTransPhase, stateVars, mapVars, connVars, stop_calls, regOp, agent_role, extVars>>

\* the callable awaited by execute_phase_action returns a payload or raises;
\* a truthy payload is passed to send_message (phase.py:376-389, 253, 256)
PhaseActionReturn(raise, payload) ==
  /\ hstat = "execute_phase_action"
  /\ raise => payload = "empty"
  /\ IF raise
     THEN HandlerRaises /\ action' = [action EXCEPT !.payload = "raised"]
     ELSE /\ hstat' = "returned"
          /\ Advance(FALSE)
          /\ action' = EndAction(action, payload)
          /\ UNCHANGED raisedAt
  /\ UNCHANGED <<reg, wsOpen, msg, callLog, stopped, current_phase, in_continuous_phase,
                 continuous_task, tasks, new_phase, old_phase, phaseLog, lastTransPhase,
                 stateVars, mapVars, connVars, stop_calls, regOp, agent_role, extVars>>

\* ----------------------------------------------------------------------
\* The continuous loop task (PhaseManager._continuous_phase_loop)
\* ----------------------------------------------------------------------
Finish(t) == tasks' = [tasks EXCEPT ![t] = FreeTask]

\* A created task is "sleeping": its first while check (phase.py:266) and the
\* check after the sleep (phase.py:273) are both made when the sleep ends.
\* the sleep ends: break, or start execute_phase_action; with no callable to
\* await the call is over at once and the loop sleeps again
TaskWake(t) ==
  /\ tasks[t].st = "sleeping"
  /\ IF LoopMayAct(in_continuous_phase, current_phase, tasks[t].phase)
     THEN tasks' = IF StartAction(tasks[t].phase).calls = {} THEN tasks
                   ELSE [tasks EXCEPT ![t].st = "acting"]
     ELSE Finish(t)
  /\ UNCHANGED <<pipeVars, current_phase, in_continuous_phase, continuous_task, hstat,
                 new_phase, old_phase, phaseLog, lastTransPhase, stateVars, mapVars, connVars, stop_calls, regOp, actVars, extVars>>

\* the action returns, a truthy payload having been passed to send_message
\* (next iteration), or raises (the except clauses are outside the while
\* loop: the task ends)
TaskActionReturn(t, raise) ==
  /\ tasks[t].st = "acting"
  /\ IF ~raise /\ in_continuous_phase
     THEN tasks' = [tasks EXCEPT ![t].st = "sleeping"]
     ELSE Finish(t)
  /\ UNCHANGED <<pipeVars, current_phase, in_continuous_phase, continuous_task, hstat,
                 new_phase, old_phase, phaseLog, lastTransPhase, stateVars, mapVars, connVars, stop_calls, regOp, actVars, extVars>>

\* `except asyncio.CancelledError` is outside the while loop: the coroutine
\* logs and returns (phase.py:278-279)
OnCancelledContinue(task) == [task EXCEPT !.st = "sleeping"]
OnCancelled(task) == FreeTask

\* CancelledError is delivered at the task's await and caught (phase.py:278)
TaskCancelled(t) ==
  /\ tasks[t].st = "cancelled"
  /\ tasks' = [tasks EXCEPT ![t] = OnCancelled(tasks[t])]
  /\ UNCHANGED <<pipeVars, current_phase, in_continuous_phase, continuous_task, hstat,
                 new_phase, old_phase, phaseLog, lastTransPhase, stateVars, mapVars, connVars, stop_calls, regOp, actVars, extVars>>

\* ----------------------------------------------------------------------
\* The receive loop and the callables of the pipeline
\* ----------------------------------------------------------------------
\* receive_messages awaits on_message before it reads the next frame (base.py:298-301)
ReceiveLoopReadyAlways(p) == TRUE
ReceiveLoopReady(p) == p = "recv"

\* on_message routes only "event" messages to on_event (base.py:60)
IsEventAlways(m) == TRUE
IsEvent(m) == m.msg_type = "event"

\* receive_messages: an exception other than ConnectionClosed ends the loop
\* (base.py:305-307); a frame that gave no Message is skipped (base.py:300)
LoopBreaksOnNone(m) == m \in {ParseError, NoMsg}
LoopBreaks(m) == m = ParseError

\* frames the server sends: it opens a continuous phase only while a task slot is left
SpawnsTask(m) ==
  /\ IsEvent(m)
  /\ m.event_type = phase_transition_event
  /\ Get(m.data, phase_identifier_key) \in continuous_phases

RecvFrame(frame) ==
  /\ ReceiveLoopReady(pc)
  /\ wsOpen
  /\ LET m == extract_message_data(frame)
     IN /\ SpawnsTask(m) => Cardinality(UsedTasks) < MaxTasks
        /\ msg' = m
        /\ callLog' = << >>
        /\ raisedAt' = {}
        /\ IF LoopBreaks(m)
           THEN stage' = 7 /\ idx' = 1 /\ pc' = "closed" /\ UNCHANGED inflight
           ELSE IF m # NoMsg /\ IsEvent(m)
           THEN LET p == Seek(reg, m.event_type, 1, 1)
                IN /\ stage' = p[1]
                   /\ idx' = p[2]
                   /\ IF p[1] > 6
                      THEN pc' = "recv" /\ inflight' = inflight
                      ELSE pc' = "dispatch" /\ inflight' = inflight + 1
           ELSE /\ stage' = 7
                /\ idx' = 1
                /\ UNCHANGED <<pc, inflight>>
  /\ UNCHANGED <<reg, wsOpen, stopped, phaseVars, stateVars, mapVars, connVars, stop_calls, regOp, actVars, extVars>>

\* a registered callable of the application returns or raises
CallUser(raise) ==
  /\ pc = "dispatch"
  /\ Cur.kind = "user"
  /\ raise => Cardinality(raisedAt) < MaxRaises
  /\ callLog' = Append(callLog, Cur)
  /\ raisedAt' = IF raise THEN raisedAt \cup {Len(callLog) + 1} ELSE raisedAt
  /\ Advance(raise)
  /\ UNCHANGED <<reg, wsOpen, msg, stopped, phaseVars, stateVars, mapVars, connVars, stop_calls, regOp, actVars, extVars>>

\* PhaseManager._update_state, the global pre-event hook (phase.py:192-196)
CallUpdateState ==
  /\ pc = "dispatch"
  /\ Cur = UpdateStateHook
  /\ callLog' = Append(callLog, Cur)
  /\ gstate' = update_state(gstate, msg)
  /\ customCall' = CustomCallOf(msg)
  /\ Advance(FALSE)
  /\ UNCHANGED <<reg, wsOpen, msg, raisedAt, stopped, phaseVars, stEvent, mapVars, connVars, stop_calls, regOp, actVars, extVars>>

\* the peer closes the connection: recv raises ConnectionClosed (base.py:302-304)
PeerClose ==
  /\ pc = "recv"
  /\ wsOpen
  /\ wsOpen' = FALSE
  /\ pc' = "closed"
  /\ UNCHANGED <<reg, msg, stage, idx, callLog, raisedAt, inflight, stopped,
                 phaseVars, stateVars, mapVars, connVars, stop_calls, regOp, actVars, extVars>>

\* recv on a connection closed by stop()
LoopExit ==
  /\ pc = "recv"
  /\ ~wsOpen
  /\ pc' = "closed"
  /\ UNCHANGED <<reg, wsOpen, msg, stage, idx, callLog, raisedAt, inflight, stopped,
                 phaseVars, stateVars, mapVars, connVars, stop_calls, regOp, actVars, extVars>>

\* what stop() reads and writes
Session ==
  [in_continuous_phase |-> in_continuous_phase, continuous_task |-> continuous_task,
   tasks |-> tasks, running |-> running, ws |-> ws, wsOpen |-> wsOpen]

\* PhaseManager.stop (phase.py:318-324), then AgentManager.stop (base.py:317-323):
\* self.task is never assigned, ws.close() is awaited when ws is set
stop_keeps_task(s) ==
  [s EXCEPT !.in_continuous_phase = FALSE,
            !.tasks = IF s.continuous_task # NoTask THEN Cancel(s.tasks, s.continuous_task)
                      ELSE s.tasks,
            !.running = FALSE,
            !.wsOpen = IF s.ws THEN FALSE ELSE s.wsOpen]
stop(s) ==
  [s EXCEPT !.in_continuous_phase = FALSE,
            !.tasks = IF s.continuous_task # NoTask THEN Cancel(s.tasks, s.continuous_task)
                      ELSE s.tasks,
            !.continuous_task = NoTask,
            !.running = FALSE,
            !.wsOpen = IF s.ws THEN FALSE ELSE s.wsOpen]

\* a call of stop()
StopCall ==
  /\ stop_calls < MaxStops
  /\ stop_calls' = stop_calls + 1
  /\ stopped' = TRUE
  /\ LET s == stop(Session)
     IN /\ in_continuous_phase' = s.in_continuous_phase
        /\ tasks' = s.tasks
        /\ continuous_task' = s.continuous_task
        /\ running' = s.running
        /\ wsOpen' = s.wsOpen
  /\ UNCHANGED <<reg, pc, msg, stage, idx, callLog, raisedAt, inflight,
                 current_phase, hstat, new_phase, old_phase, phaseLog, lastTransPhase,
                 stateVars, mapVars, actVars, ws, connected, sendLog, regOp, extVars>>

\* the first call of stop()
Stop == ~stopped /\ StopCall

\* ----------------------------------------------------------------------
\* Connection (AgentManager.start, connect, send_message)
\* ----------------------------------------------------------------------
login_payload == [type |-> "join", gameId |-> "game-1"]
ActionPayload == [type |-> "action", gameId |-> "game-1"]

\* json.dumps of a payload: the text of a JSON object (base.py:278)
Dumps(obj) == JsonObject(obj)

\* the frames connect() sends once the socket is open (base.py:278-279)
LoginFramesTwice(payload) == <<Dumps(payload), Dumps(payload)>>
LoginFrames(payload) == <<Dumps(payload)>>

\* send_message: ws.send inside try/except Exception (base.py:288-293); with
\* ws = None the AttributeError is caught like a failed write
send_message_uncaught(wsSet, open, ok) ==
  IF wsSet /\ open /\ ok THEN "sent" ELSE "raised"
send_message(wsSet, open, ok) ==
  IF wsSet /\ open /\ ok THEN "sent" ELSE "swallowed"

\* connect(): `except Exception: return False`, `else: return True` (base.py:281-286)
ConnectReturns(outcome) == IF outcome = "raised" THEN "false" ELSE "true"

\* start(): running = True, then connect() is awaited (base.py:309-311)
Start ==
  /\ pc = "idle"
  /\ pc' = "connect"
  /\ running' = TRUE
  /\ UNCHANGED <<reg, wsOpen, msg, stage, idx, callLog, raisedAt, inflight, stopped,
                 phaseVars, stateVars, mapVars, actVars, ws, connected, sendLog, stop_calls, regOp, extVars>>

\* websockets.connect returns a connection or raises (base.py:277)
ConnectOpen(ok) ==
  /\ pc = "connect"
  /\ IF ok
     THEN ws' = TRUE /\ wsOpen' = TRUE /\ pc' = "login" /\ UNCHANGED connected
     ELSE connected' = "false" /\ pc' = "failed" /\ UNCHANGED <<ws, wsOpen>>
  /\ UNCHANGED <<reg, msg, stage, idx, callLog, raisedAt, inflight, stopped,
                 phaseVars, stateVars, mapVars, actVars, running, sendLog, stop_calls, regOp, extVars>>

\* the login payload is sent, connect() returns and start() goes on to
\* receive_messages or returns (base.py:278-286, 311-315)
ConnectLogin(ok) ==
  /\ pc = "login"
  /\ LET out == send_message(ws, wsOpen, ok)
         frames == LoginFrames(login_payload)
     IN /\ sendLog' = sendLog \o [i \in 1..Len(frames) |-> [text |-> frames[i], outcome |-> out]]
        /\ connected' = ConnectReturns(out)
        /\ pc' = IF ConnectReturns(out) = "true" THEN "recv" ELSE "failed"
  /\ UNCHANGED <<reg, wsOpen, msg, stage, idx, callLog, raisedAt, inflight, stopped,
                 phaseVars, stateVars, mapVars, actVars, ws, running, stop_calls, regOp, extVars>>

\* a call of send_message by the application or by a phase action
SendMessage(ok) ==
  /\ Len(sendLog) < MaxSends
  /\ sendLog' = Append(sendLog, [text |-> Dumps(ActionPayload),
                                 outcome |-> send_message(ws, wsOpen, ok)])
  /\ UNCHANGED <<pipeVars, phaseVars, stateVars, mapVars, actVars, ws, running, connected,
                 stop_calls, regOp, extVars>>

\* GameState.update_state called directly with an event
StateDatas ==
  {d \in UNION {[K -> 1..Max(MaxPhase, MaxValue)] : K \in SUBSET {"phase", "wallet", "price"}} :
     \A k \in DOMAIN d : IF k = "phase" THEN d[k] \in Phases ELSE d[k] \in 1..MaxValue}
CustomDatas ==
  {d \in UNION {[K -> 1..Max(MaxPhase, MaxValue)] : K \in SUBSET {"phase", "game_id"}} :
     \A k \in DOMAIN d : IF k = "phase" THEN d[k] \in Phases ELSE d[k] \in 1..MaxValue}
StateEvents ==
  {[msg_type |-> "event", event_type |-> e, data |-> d] : e \in EventTypes, d \in StateDatas} \cup
  {[msg_type |-> "event", event_type |-> e, data |-> d] : e \in CustomEventTypes, d \in CustomDatas}

UpdateState(event) ==
  /\ gstate' = update_state(gstate, event)
  /\ customCall' = CustomCallOf(event)
  /\ stEvent' = event
  /\ UNCHANGED <<pipeVars, phaseVars, mapVars, connVars, stop_calls, regOp, actVars, extVars>>

\* PropertyMapping(...) and its two filter methods called directly
PhaseLists == {NoList} \cup {List(S) : S \in SUBSET Phases}
EventLists == {NoList} \cup {List(S) : S \in SUBSET EventTypes}
MappingArgs ==
  {Mapping("wallet", "wallet", "private", p, xp, e, xe) :
     p \in PhaseLists, xp \in PhaseLists, e \in EventLists, xe \in EventLists}
NoMapping ==
  [st |-> "none", args |-> Mapping("", "", "private", NoList, NoList, NoList, NoList)]
NoVerdict == [phase |-> NoPhase, event_type |-> "", in_phase |-> FALSE, in_event |-> FALSE]

Construct(args) ==
  /\ built = NoMapping
  /\ built' = [st |-> IF model_post_init(args) THEN "ValueError" ELSE "ok", args |-> args]
  /\ UNCHANGED <<pipeVars, phaseVars, stateVars, verdict, actVars, connVars, stop_calls, regOp, extVars>>

ShouldApply(current, event_type) ==
  /\ built.st = "ok"
  /\ verdict' = [phase |-> current, event_type |-> event_type,
                 in_phase |-> should_apply_in_phase(built.args, current),
                 in_event |-> should_apply_in_event(built.args, event_type)]
  /\ UNCHANGED <<pipeVars, phaseVars, stateVars, built, actVars, connVars, stop_calls, regOp, extVars>>

\* ----------------------------------------------------------------------
\* Specifications
\* ----------------------------------------------------------------------
Users(scope, n) == [i \in 1..n |-> User(scope, i)]

\* the registries of a PhaseManager with a state, plus one application hook
SessionRegistry ==
  [global_pre |-> <<UpdateStateHook>>,
   pre |-> << >>,
   global_handlers |-> << >>,
   handlers |-> (phase_transition_event :> <<TransitionHandler>>),
   post |-> << >>,
   global_post |-> Users("global_post", 1)]

\* registries of instrumented callables: up to MaxHooks per scope, the
\* type-specific ones registered for the transition event type only
PipeRegistry(lens) ==
  [s \in Scopes |->
     IF s \in {"global_pre", "global_handlers", "global_post"} THEN Users(s, lens[s])
     ELSE IF lens[s] = 0 THEN << >>
     ELSE (phase_transition_event :> Users(s, lens[s]))]
PipeRegistries == {PipeRegistry(lens) : lens \in [Scopes -> 0..MaxHooks]}

\* ----------------------------------------------------------------------
\* Registration (AgentManager.register_* and unregister_*)
\* ----------------------------------------------------------------------
GlobalScopes == {"global_pre", "global_handlers", "global_post"}
NoTarget == [kind |-> "<None>", scope |-> "", n |-> 0]
\* two callables of the application, each registrable in every scope
RegCallables == {User("app", 1), User("app", 2)}
NoOp == [scope |-> "", event_type |-> "", target |-> NoTarget]
EmptyRegistry == [s \in Scopes |-> << >>]

\* [h for h in hooks if h != target]
Without(hooks, target) == SelectSeq(hooks, LAMBDA h : h # target)

\* register_*: the callable is appended to the list of the scope, which is
\* created for a new event type (base.py:117-187)
register(r, scope, event_type, h) ==
  IF scope \in GlobalScopes THEN [r EXCEPT ![scope] = Append(@, h)]
  ELSE [r EXCEPT ![scope] =
          [e \in DOMAIN @ \cup {event_type} |->
             IF e = event_type THEN Append(Keyed(r, scope, event_type), h) ELSE @[e]]]

\* unregister_*: without a target the list of the event type is popped (the
\* global list is cleared); with a target the list is rebuilt without the
\* entries equal to it (base.py:189-273)
unregister_clears_scope(r, scope, event_type, target) ==
  IF scope \in GlobalScopes
  THEN [r EXCEPT ![scope] = IF target = NoTarget THEN << >> ELSE Without(@, target)]
  ELSE IF event_type \notin DOMAIN r[scope] THEN r
  ELSE IF target = NoTarget
  THEN [r EXCEPT ![scope] = << >>]
  ELSE [r EXCEPT ![scope][event_type] = Without(@, target)]
unregister(r, scope, event_type, target) ==
  IF scope \in GlobalScopes
  THEN [r EXCEPT ![scope] = IF target = NoTarget THEN << >> ELSE Without(@, target)]
  ELSE IF event_type \notin DOMAIN r[scope] THEN r
  ELSE IF target = NoTarget
  THEN [r EXCEPT ![scope] = [e \in DOMAIN @ \ {event_type} |-> @[e]]]
  ELSE [r EXCEPT ![scope][event_type] = Without(@, target)]

RECURSIVE SumLens(_, _)
SumLens(f, dom) ==
  IF dom = {} THEN 0
  ELSE LET e == CHOOSE x \in dom : TRUE IN Len(f[e]) + SumLens(f, dom \ {e})
Registered(r) ==
  LET n(scope) == IF scope \in GlobalScopes THEN Len(r[scope])
                  ELSE SumLens(r[scope], DOMAIN r[scope])
  IN n("global_pre") + n("pre") + n("global_handlers") + n("handlers") + n("post")
     + n("global_post")

\* the event type argument exists for the type-specific scopes only
OpEventTypes(scope) == IF scope \in GlobalScopes THEN {""} ELSE EventTypes

Register(scope, event_type, h) ==
  /\ Registered(reg) < MaxRegistered
  /\ reg' = register(reg, scope, event_type, h)
  /\ regOp' = NoOp
  /\ UNCHANGED <<wsOpen, pc, msg, stage, idx, callLog, raisedAt, inflight, stopped,
                 phaseVars, stateVars, mapVars, actVars, connVars, stop_calls, extVars>>

Unregister(scope, event_type, target) ==
  /\ reg' = unregister(reg, scope, event_type, target)
  /\ regOp' = [scope |-> scope, event_type |-> event_type, target |-> target]
  /\ UNCHANGED <<wsOpen, pc, msg, stage, idx, callLog, raisedAt, inflight, stopped,
                 phaseVars, stateVars, mapVars, actVars, connVars, stop_calls, extVars>>

\* ----------------------------------------------------------------------
\* GameManager and ExperimentRunner (managers/game_manager.py,
\* pipeline/experiment_runner.py)
\* ----------------------------------------------------------------------
\* next_phase: the index advances unless it is the last one (game_manager.py:28-35)
next_phase_unguarded(index, n) == index + 1
next_phase(index, n) == IF index < n - 1 THEN index + 1 ELSE index

\* is_finished (game_manager.py:43-45)
is_finished(index, n) == index >= n - 1

\* a GameManager that has just been constructed (game_manager.py:12-18)
InitGame ==
  /\ current_phase_index = 0
  /\ rstat = "new"
  /\ steps = 0
  /\ next_calls = 0

\* run_experiment calls start_game, which raises for a game without phases
StartGame ==
  /\ rstat = "new"
  /\ IF nphases > 0
     THEN current_phase_index' = 0 /\ rstat' = "running"
     ELSE rstat' = "error" /\ UNCHANGED current_phase_index
  /\ UNCHANGED <<nphases, steps, next_calls>>
  /\ UNCHANGED <<pipeVars, phaseVars, stateVars, mapVars, actVars, connVars, stop_calls, regOp, cfgVars, legacyVars>>

\* one iteration of `while not is_finished(): step()`; step ends with next_phase
RunnerStep ==
  /\ rstat = "running"
  /\ ~is_finished(current_phase_index, nphases)
  /\ steps' = steps + 1
  /\ current_phase_index' = next_phase(current_phase_index, nphases)
  /\ UNCHANGED <<nphases, rstat, next_calls>>
  /\ UNCHANGED <<pipeVars, phaseVars, stateVars, mapVars, actVars, connVars, stop_calls, regOp, cfgVars, legacyVars>>

\* the loop ends and run_experiment returns finalize()
RunnerFinalize ==
  /\ rstat = "running"
  /\ is_finished(current_phase_index, nphases)
  /\ rstat' = "finished"
  /\ UNCHANGED <<nphases, current_phase_index, steps, next_calls>>
  /\ UNCHANGED <<pipeVars, phaseVars, stateVars, mapVars, actVars, connVars, stop_calls, regOp, cfgVars, legacyVars>>

\* next_phase called on the GameManager before or after run_experiment
NextPhaseCall ==
  /\ rstat \in {"new", "finished"}
  /\ nphases > 0
  /\ next_calls < MaxNextCalls
  /\ next_calls' = next_calls + 1
  /\ current_phase_index' = next_phase(current_phase_index, nphases)
  /\ UNCHANGED <<nphases, rstat, steps>>
  /\ UNCHANGED <<pipeVars, phaseVars, stateVars, mapVars, actVars, connVars, stop_calls, regOp, cfgVars, legacyVars>>

\* ----------------------------------------------------------------------
\* The settings of a PhaseManager (core/manager/phase.py)
\* ----------------------------------------------------------------------
\* __init__ registers the transition handler when an event name is given and
\* the state hook when a state is given (phase.py:83-89): the settings of the
\* manager whose registries are r
\* (an event name that is not given is "")
Configured(r) ==
  LET events == {e \in DOMAIN r["handlers"] :
                   \E i \in 1..Len(r["handlers"][e]) : r["handlers"][e][i] = TransitionHandler}
  IN /\ reg = r
     /\ manager_state = (\E i \in 1..Len(r["global_pre"]) : r["global_pre"][i] = UpdateStateHook)
     /\ transition_event = IF events = {} THEN "" ELSE CHOOSE e \in events : TRUE

\* the registries __init__ leaves for an event name and a state
Constructed(event, state) ==
  LET r1 == IF event # "" THEN register(EmptyRegistry, "handlers", event, TransitionHandler)
            ELSE EmptyRegistry
  IN IF state THEN register(r1, "global_pre", "", UpdateStateHook) ELSE r1

\* the state setter (phase.py:108-116): value is a GameState (TRUE) or None
set_state(r, old_state, value) ==
  IF ~old_state /\ value THEN register(r, "global_pre", "", UpdateStateHook) ELSE r

\* the phase_transition_event setter (phase.py:123-133)
set_phase_transition_event(r, old_event, value) ==
  IF old_event # value
  THEN register(IF old_event # ""
                THEN unregister(r, "handlers", old_event, NoTarget) ELSE r,
                "handlers", value, TransitionHandler)
  ELSE r

SetState(value) ==
  /\ Registered(reg) < MaxRegistered
  /\ manager_state' = value
  /\ reg' = set_state(reg, manager_state, value)
  /\ UNCHANGED <<wsOpen, pc, msg, stage, idx, callLog, raisedAt, inflight, stopped,
                 phaseVars, stateVars, mapVars, actVars, connVars, stop_calls, regOp,
                 gameVars, transition_event, legacyVars>>

SetTransitionEvent(value) ==
  /\ transition_event' = value
  /\ reg' = set_phase_transition_event(reg, transition_event, value)
  /\ UNCHANGED <<wsOpen, pc, msg, stage, idx, callLog, raisedAt, inflight, stopped,
                 phaseVars, stateVars, mapVars, actVars, connVars, stop_calls, regOp,
                 gameVars, manager_state, legacyVars>>

\* ----------------------------------------------------------------------
\* The legacy manager beside the PhaseManager (core/manager/turn.py)
\* ----------------------------------------------------------------------
\* the fields the two managers share and the phases an action was executed for
InitLegacy ==
  /\ evt = [phase |-> NoPhase, pm_done |-> TRUE, legacy_done |-> TRUE]
  /\ pm = [current_phase |-> NoPhase, in_continuous_phase |-> FALSE,
           task |-> FALSE, actions |-> << >>]
  /\ legacy = pm

\* TurnBasedWithContinuousManager._handle_phase (turn.py:199-227): the loop
\* task is replaced and the agent is asked for the initial action
legacy_handle_phase_discrete(s, phase, agent) ==
  IF ~agent THEN s ELSE [s EXCEPT !.actions = Append(@, phase)]
legacy_handle_phase(s, phase, agent) ==
  IF ~agent THEN s
  ELSE IF phase \in continuous_phases
  THEN [s EXCEPT !.in_continuous_phase = TRUE, !.task = TRUE, !.actions = Append(@, phase)]
  ELSE [s EXCEPT !.actions = Append(@, phase)]

\* TurnBasedWithContinuousManager._handle_phase_transition (turn.py:176-197)
legacy_handle_phase_transition(s, np, agent) ==
  LET stopc == s.in_continuous_phase /\ np # s.current_phase
      s1 == IF stopc THEN [s EXCEPT !.in_continuous_phase = FALSE, !.task = FALSE] ELSE s
      s2 == [s1 EXCEPT !.current_phase = np]
  IN IF np # NoPhase THEN legacy_handle_phase(s2, np, agent) ELSE s2

\* PhaseManager.handle_phase_transition (phase.py:210-256) with the default
\* on_phase_end and on_phase_start, which return at once, from its call to its
\* return
handle_phase_transition(s, np, agent) ==
  LET stopc == ShouldStopContinuous(s.in_continuous_phase, np, s.current_phase)
      s1 == IF stopc THEN [s EXCEPT !.in_continuous_phase = FALSE, !.task = FALSE] ELSE s
      s2 == [s1 EXCEPT !.current_phase = np]
      s3 == IF IsContinuousPhase(np)
            THEN [s2 EXCEPT !.in_continuous_phase = TRUE, !.task = TRUE] ELSE s2
  IN IF ~CallsPhaseStart(np) THEN s2
     ELSE IF ActionCallables(np, {}, agent) = {} THEN s3
     ELSE [s3 EXCEPT !.actions = Append(@, np)]

\* the same transition event reaches both managers
TransitionEvent(np) ==
  /\ evt.pm_done /\ evt.legacy_done
  /\ Len(pm.actions) < MaxEvents
  /\ evt' = [phase |-> np, pm_done |-> FALSE, legacy_done |-> FALSE]
  /\ UNCHANGED <<pm, legacy>>
  /\ UNCHANGED <<pipeVars, phaseVars, stateVars, mapVars, actVars, connVars, stop_calls, regOp,
                 gameVars, cfgVars>>

PhaseManagerHandles ==
  /\ ~evt.pm_done
  /\ pm' = handle_phase_transition(pm, evt.phase, agent_role)
  /\ evt' = [evt EXCEPT !.pm_done = TRUE]
  /\ UNCHANGED legacy
  /\ UNCHANGED <<pipeVars, phaseVars, stateVars, mapVars, actVars, connVars, stop_calls, regOp,
                 gameVars, cfgVars>>

LegacyHandles ==
  /\ ~evt.legacy_done
  /\ legacy' = legacy_handle_phase_transition(legacy, evt.phase, agent_role)
  /\ evt' = [evt EXCEPT !.legacy_done = TRUE]
  /\ UNCHANGED pm
  /\ UNCHANGED <<pipeVars, phaseVars, stateVars, mapVars, actVars, connVars, stop_calls, regOp,
                 gameVars, cfgVars>>

\* the session before start(): AgentManager.__init__ (base.py:12-39) and
\* PhaseManager.__init__
InitManager ==
  /\ msg = NoMsg
  /\ stage = 7
  /\ idx = 1
  /\ callLog = << >>
  /\ raisedAt = {}
  /\ inflight = 0
  /\ stopped = FALSE
  /\ current_phase = NoPhase
  /\ in_continuous_phase = FALSE
  /\ continuous_task = NoTask
  /\ tasks = [t \in TaskIds |-> FreeTask]
  /\ hstat = "idle"
  /\ new_phase = NoPhase
  /\ old_phase = NoPhase
  /\ phaseLog = << >>
  /\ lastTransPhase = NoTransition
  /\ gstate = InitGameState
  /\ customCall = << >>
  /\ stEvent = NoMsg
  /\ built = NoMapping
  /\ verdict = NoVerdict
  /\ action = NoAction
  /\ stop_calls = 0
  /\ regOp = NoOp
  /\ InitGame
  /\ InitLegacy

\* the session once connect() has returned True and start() awaits receive_messages
InitConnected ==
  /\ wsOpen = TRUE
  /\ pc = "recv"
  /\ ws = TRUE
  /\ running = TRUE
  /\ connected = "true"
  /\ sendLog = << [text |-> Dumps(login_payload), outcome |-> "sent"] >>

InitCommon == InitManager /\ InitConnected /\ nphases = 3

Init == InitCommon /\ Configured(SessionRegistry) /\ agent_role = TRUE

Next ==
  \/ \E frame \in Frames : RecvFrame(frame)
  \/ \E raise \in BOOLEAN : CallUser(raise)
  \/ CallUpdateState
  \/ TransitionBegin
  \/ \E raise \in BOOLEAN : PhaseEndReturn(raise)
  \/ \E raise \in BOOLEAN : PhaseStartReturn(raise)
  \/ \E raise \in BOOLEAN, payload \in Payloads : PhaseActionReturn(raise, payload)
  \/ \E t \in TaskIds : TaskWake(t)
  \/ \E t \in TaskIds, raise \in BOOLEAN : TaskActionReturn(t, raise)
  \/ \E t \in TaskIds : TaskCancelled(t)
  \/ PeerClose
  \/ LoopExit
  \/ Stop

Spec == Init /\ [][Next]_vars

\* the event loop runs every task that is ready: a cancelled task is resumed
\* with CancelledError at its await
\* (a session without game state and without hooks of the application: only
\* the transition handler is registered, phase.py:108-113; the frames are the
\* transition events: they are what cancels a task)
LoopRegistry ==
  [s \in Scopes |->
     IF s = "handlers" THEN (phase_transition_event :> <<TransitionHandler>>) ELSE << >>]
InitFair == InitCommon /\ Configured(LoopRegistry) /\ agent_role = TRUE
TransitionFrames == {JsonFrame("event", phase_transition_event, d) : d \in PhaseDatas}
NextFair ==
  \/ \E frame \in TransitionFrames : RecvFrame(frame)
  \/ TransitionBegin
  \/ \E raise \in BOOLEAN : PhaseEndReturn(raise)
  \/ \E raise \in BOOLEAN : PhaseStartReturn(raise)
  \/ \E raise \in BOOLEAN, payload \in Payloads : PhaseActionReturn(raise, payload)
  \/ \E t \in TaskIds : TaskWake(t)
  \/ \E t \in TaskIds, raise \in BOOLEAN : TaskActionReturn(t, raise)
  \/ \E t \in TaskIds : TaskCancelled(t)
  \/ PeerClose
  \/ LoopExit
  \/ Stop

SpecFair == InitFair /\ [][NextFair]_vars /\ \A t \in TaskIds : WF_vars(TaskCancelled(t))

\* a session from its construction: start(), connect(), the receive loop and
\* the phase machine, send_message and stop() called at any time
InitConn ==
  /\ InitManager
  /\ Configured(LoopRegistry)
  /\ agent_role = TRUE
  /\ wsOpen = FALSE
  /\ pc = "idle"
  /\ ws = FALSE
  /\ running = FALSE
  /\ connected = "pending"
  /\ sendLog = << >>
  /\ nphases = 3

\* (the frames are the transition events to a continuous and to a discrete
\* phase; callbacks and actions return normally)
ConnFrames == {JsonFrame("event", phase_transition_event, ("phase" :> p)) : p \in {1, 2}}
NextConn ==
  \/ Start
  \/ \E ok \in BOOLEAN : ConnectOpen(ok)
  \/ \E ok \in BOOLEAN : ConnectLogin(ok)
  \/ \E ok \in BOOLEAN : SendMessage(ok)
  \/ StopCall
  \/ \E frame \in ConnFrames : RecvFrame(frame)
  \/ TransitionBegin
  \/ PhaseEndReturn(FALSE)
  \/ PhaseStartReturn(FALSE)
  \/ \E payload \in Payloads : PhaseActionReturn(FALSE, payload)
  \/ \E t \in TaskIds : TaskWake(t)
  \/ \E t \in TaskIds : TaskActionReturn(t, FALSE)
  \/ \E t \in TaskIds : TaskCancelled(t)
  \/ PeerClose
  \/ LoopExit

SpecConn == InitConn /\ [][NextConn]_vars

\* the same session constructed without an agent_role
InitNoAgent == InitCommon /\ Configured(SessionRegistry) /\ agent_role = FALSE

SpecNoAgent == InitNoAgent /\ [][Next]_vars

InitPipeline == InitCommon /\ (\E r \in PipeRegistries : Configured(r)) /\ agent_role = TRUE

NextPipeline ==
  \/ \E frame \in PipeFrames : RecvFrame(frame)
  \/ \E raise \in BOOLEAN : CallUser(raise)

SpecPipeline == InitPipeline /\ [][NextPipeline]_vars

InitState == InitCommon /\ Configured(SessionRegistry) /\ agent_role = TRUE

NextState == \E event \in StateEvents : UpdateState(event)

SpecState == InitState /\ [][NextState]_vars

InitRegistry == InitCommon /\ Configured(EmptyRegistry) /\ agent_role = TRUE

\* (two type-specific and two global scopes are exercised: the methods of the
\* other two are the same code)
RegScopes == {"pre", "handlers", "global_handlers", "global_post"}
NextRegistry ==
  \/ \E scope \in RegScopes : \E event_type \in OpEventTypes(scope), h \in RegCallables :
       Register(scope, event_type, h)
  \/ \E scope \in RegScopes :
       \E event_type \in OpEventTypes(scope), target \in RegCallables \cup {NoTarget} :
         Unregister(scope, event_type, target)

SpecRegistry == InitRegistry /\ [][NextRegistry]_vars

\* games of 0..MaxGamePhases phases
InitRunner ==
  /\ InitManager /\ InitConnected /\ Configured(EmptyRegistry) /\ agent_role = TRUE
  /\ nphases \in 0..MaxGamePhases

NextRunner == StartGame \/ RunnerStep \/ RunnerFinalize \/ NextPhaseCall

SpecRunner == InitRunner /\ [][NextRunner]_vars

InitMapping == InitCommon /\ Configured(SessionRegistry) /\ agent_role = TRUE

NextMapping ==
  \/ \E args \in MappingArgs : Construct(args)
  \/ \E current \in 0..MaxPhase, event_type \in EventTypes \cup CustomEventTypes :
       ShouldApply(current, event_type)

SpecMapping == InitMapping /\ [][NextMapping]_vars

\* both managers constructed with the same continuous_phases and an agent
\* (InitFair), given up to MaxEvents transition events that start an action
NextManagers ==
  \/ \E np \in Phases \cup {NoPhase} : TransitionEvent(np)
  \/ PhaseManagerHandles
  \/ LegacyHandles

SpecManagers == InitFair /\ [][NextManagers]_vars

\* a PhaseManager constructed with or without an event name and a state; the
\* application registers handlers and assigns the two settings
InitSettings ==
  /\ InitCommon
  /\ \E event \in EventTypes \cup {""}, state \in BOOLEAN : Configured(Constructed(event, state))
  /\ agent_role = TRUE

NextSettings ==
  \/ \E value \in BOOLEAN : SetState(value)
  \/ \E value \in EventTypes : SetTransitionEvent(value)
  \/ \E event_type \in EventTypes, h \in RegCallables : Register("handlers", event_type, h)

SpecSettings == InitSettings /\ [][NextSettings]_vars

\* ----------------------------------------------------------------------
\* Properties of the phase state machine (specification Spec)
\* ----------------------------------------------------------------------
\* the step in which handle_phase_transition starts for the event being dispatched
TransitionBeginStep ==
  /\ pc = "dispatch"
  /\ stage <= 6
  /\ Cur = TransitionHandler
  /\ hstat \in {"idle", "returned", "raised"}
  /\ callLog' = Append(callLog, TransitionHandler)

\* C1: once the receive loop has processed the transition events received so
\* far (and the session was not stopped), current_phase is the phase carried by
\* the most recent transition event, and a continuous-loop task is alive
\* exactly when current_phase is one of the continuous phases.
C1_PhaseAndTaskFollowLastTransition ==
  (pc = "recv" /\ ~stopped /\ lastTransPhase # NoTransition) =>
    /\ current_phase = lastTransPhase
    /\ (AliveTasks # {}) <=> (current_phase \in continuous_phases)

\* C2: in every reachable state at most one continuous-loop task is alive.
C2_AtMostOneLoopTask == Cardinality(AliveTasks) <= 1

\* C3: when a transition to phase B starts while a loop for a phase A # B is
\* running, that loop is cancelled in that step, exactly once; no loop is ever
\* cancelled twice, and no loop for B runs beside an uncancelled loop for A.
C3_CancelStep ==
  TransitionBeginStep =>
    \A t \in TaskIds :
      (tasks[t].st \in RunningStates /\ tasks[t].phase # new_phase') =>
        (tasks'[t].st = "cancelled" /\ tasks'[t].cancels = 1)
C3_CancelState ==
  /\ \A t \in TaskIds : tasks[t].cancels <= 1
  /\ \A t, u \in AliveTasks : tasks[t].phase = tasks[u].phase
C3_PriorLoopCancelledOnceBeforeSpawn == [][C3_CancelStep]_vars /\ []C3_CancelState

\* what handle_phase_transition does, in order, for a transition old -> new
EndPart(old) == IF old = NoPhase THEN << >> ELSE <<Entry("on_phase_end", old)>>
ExpectedDiscrete(old, new) ==
  EndPart(old) \o <<Entry("set", new), Entry("on_phase_start", new),
                    Entry("execute_phase_action", new)>>
ExpectedContinuous(old, new) ==
  EndPart(old) \o <<Entry("set", new), Entry("on_phase_start", new),
                    Entry("create_task", new), Entry("execute_phase_action", new)>>
HandlerActive == hstat # "idle"
PhaseIsSet == \E i \in 1..Len(phaseLog) : phaseLog[i].op = "set"

\* C6: a transition to a non-null phase q that is not continuous calls
\* on_phase_end(p) (only if the previous phase p is not null), then sets
\* current_phase to q, then calls on_phase_start(q), then executes one phase
\* action for q: what the handler has done is always a prefix of that
\* sequence, and the whole sequence once the action has been started.
C6_DiscreteTransitionOrder ==
  (HandlerActive /\ new_phase # NoPhase /\ new_phase \notin continuous_phases) =>
    /\ IsPrefix(phaseLog, ExpectedDiscrete(old_phase, new_phase))
    /\ current_phase = (IF PhaseIsSet THEN new_phase ELSE old_phase)
    /\ hstat \in {"execute_phase_action", "returned"} =>
         phaseLog = ExpectedDiscrete(old_phase, new_phase)
    /\ in_continuous_phase = FALSE

C6_Witness ==
  /\ hstat = "returned"
  /\ old_phase = 1
  /\ new_phase = 2
  /\ current_phase = 2
  /\ phaseLog = <<Entry("on_phase_end", 1), Entry("set", 2), Entry("on_phase_start", 2),
                  Entry("execute_phase_action", 2)>>

\* C15: a transition event whose phase is None (or that carries no phase)
\* calls on_phase_end for the previous phase if that is not None, then sets
\* current_phase to None and returns: it calls neither on_phase_start nor
\* execute_phase_action and spawns no loop. (A raising on_phase_end ends the
\* handler before the assignment; what was done is then a prefix.)
ExpectedNull(old) == EndPart(old) \o <<Entry("set", NoPhase)>>
C15_NullTransitionEndsPhase ==
  (HandlerActive /\ new_phase = NoPhase) =>
    /\ IsPrefix(phaseLog, ExpectedNull(old_phase))
    /\ hstat \in {"on_phase_end", "returned", "raised"}
    /\ hstat = "returned" => (phaseLog = ExpectedNull(old_phase) /\ current_phase = NoPhase)
    /\ hstat = "raised" => (phaseLog = EndPart(old_phase) /\ old_phase # NoPhase)
    /\ in_continuous_phase = FALSE
    /\ continuous_task = NoTask

C15_Witness ==
  /\ hstat = "returned"
  /\ new_phase = NoPhase
  /\ old_phase = 2
  /\ current_phase = NoPhase
  /\ phaseLog = <<Entry("on_phase_end", 2), Entry("set", NoPhase)>>
  /\ "phase" \in DOMAIN msg.data

\* C7: a transition into a continuous phase p sets in_continuous_phase, spawns
\* a loop task for p and starts exactly one immediate phase action for p in the
\* same step, while the transition event is still being handled.
C7_SpawnStep ==
  (hstat = "on_phase_start" /\ hstat' = "execute_phase_action" /\
   new_phase \in continuous_phases) =>
    /\ in_continuous_phase'
    /\ continuous_task' \in TaskIds
    /\ tasks[continuous_task'].st = "free"
    /\ tasks'[continuous_task'] = [st |-> "sleeping", phase |-> new_phase, cancels |-> 0]
    /\ pc' = "dispatch"
C7_ActionState ==
  (HandlerActive /\ new_phase \in continuous_phases) =>
    /\ IsPrefix(phaseLog, ExpectedContinuous(old_phase, new_phase))
    /\ hstat \in {"execute_phase_action", "returned"} =>
         phaseLog = ExpectedContinuous(old_phase, new_phase)
C7_ContinuousTransitionSpawnsAndActs == [][C7_SpawnStep]_vars /\ []C7_ActionState

C7_Witness ==
  /\ hstat = "execute_phase_action"
  /\ pc = "dispatch"
  /\ new_phase = 1
  /\ in_continuous_phase
  /\ continuous_task \in TaskIds
  /\ tasks[continuous_task] = [st |-> "sleeping", phase |-> 1, cancels |-> 0]
  /\ phaseLog = ExpectedContinuous(old_phase, 1)

\* C8: when the sleep of a loop for phase p ends, the loop starts a phase
\* action exactly if in_continuous_phase is true and current_phase is p;
\* otherwise it ends without acting.
C8_WakeStep ==
  \A t \in TaskIds :
    (tasks[t].st = "sleeping" /\ tasks'[t].st \in {"acting", "free"}) =>
      (tasks'[t].st = "acting" <=> (in_continuous_phase /\ current_phase = tasks[t].phase))
C8_LoopActsOnlyInItsPhase == [][C8_WakeStep]_vars

C8_Witness ==
  \E t \in TaskIds :
    /\ tasks[t].st = "acting"
    /\ tasks[t].phase = 3
    /\ current_phase = 3
    /\ pc = "recv"

\* C9: events are dispatched one at a time, in the order received: on_event
\* starts for a frame only when no on_event is in progress, i.e. after every
\* callable of the previous event, the transition handler and the phase action
\* it awaits included, has returned or raised.
C9_StartStep ==
  (inflight' > inflight) =>
    /\ inflight = 0
    /\ pc = "recv"
    /\ hstat \in {"idle", "returned", "raised"}
C18_LoopStep ==
  \A t \in TaskIds :
    (/\ tasks[t].st = "acting"
     /\ tasks'[t].st \notin {"acting", "cancelled"}
     /\ in_continuous_phase
     /\ current_phase = tasks[t].phase) => tasks'[t].st = "sleeping"
C18_LoopSurvivesActionError == [][C18_LoopStep]_vars

\* C19: in_continuous_phase is true exactly when a continuous-loop task is
\* alive, and before the first transition current_phase is None and
\* in_continuous_phase is false.
C19_ContinuousFlagMatchesTask ==
  /\ in_continuous_phase <=> (AliveTasks # {})
  /\ (lastTransPhase = NoTransition) => (current_phase = NoPhase /\ ~in_continuous_phase)

\* C20: stop() clears in_continuous_phase, cancels the continuous task if
\* there is one and closes the connection, whatever the loop is doing; once
\* stop() was called no loop task starts a phase action.
C20_StopStep ==
  (~stopped /\ stopped') =>
    /\ ~in_continuous_phase'
    /\ ~wsOpen'
    /\ continuous_task' = NoTask
    /\ continuous_task # NoTask => tasks'[continuous_task].st \in {"cancelled", "free"}
C20_AfterStop ==
  stopped => \A t \in TaskIds : ~(tasks[t].st = "sleeping" /\ tasks'[t].st = "acting")
C20_StopEndsLoopActions == [][C20_StopStep /\ C20_AfterStop]_vars

\* ----------------------------------------------------------------------
\* Properties of a session without an agent (specification SpecNoAgent)
\* ----------------------------------------------------------------------
\* C17: with no agent_role and no handler registered for the phase,
\* execute_phase_action awaits nothing, sends nothing and raises nothing: the
\* transition returns with current_phase set to the new phase, and a loop of
\* such a phase never has an action in progress.
C17_NoAgentNoHandlerSendsNothing ==
  /\ (action # NoAction /\ action.phase \notin phase_handlers) =>
       /\ action = [calls |-> {}, phase |-> new_phase, payload |-> "none", sends |-> 0]
       /\ hstat = "returned"
       /\ current_phase = new_phase
  /\ \A t \in TaskIds : tasks[t].phase \notin phase_handlers => tasks[t].st # "acting"

C17_Witness ==
  /\ ~agent_role
  /\ hstat = "returned"
  /\ pc = "recv"
  /\ old_phase = 3
  /\ new_phase = 2
  /\ current_phase = 2
  /\ action = [calls |-> {}, phase |-> 2, payload |-> "none", sends |-> 0]

\* ----------------------------------------------------------------------
\* Properties of the event pipeline (specification SpecPipeline)
\* ----------------------------------------------------------------------
ExpectedCalls(r, event_type) ==
  r["global_pre"] \o Keyed(r, "pre", event_type) \o
  r["global_handlers"] \o Keyed(r, "handlers", event_type) \o
  Keyed(r, "post", event_type) \o r["global_post"]
Dispatched == pc = "recv" /\ IsEvent(msg)

\* C4: for an event of any type the callables run stage by stage in the order
\* global pre-hooks, type pre-hooks, global handlers, type handlers, type
\* post-hooks, global post-hooks, each registered callable exactly once.
C4_PipelineOrder ==
  /\ IsPrefix(callLog, ExpectedCalls(reg, msg.event_type))
  /\ Dispatched => callLog = ExpectedCalls(reg, msg.event_type)

C4_Witness ==
  /\ Dispatched
  /\ msg.event_type = phase_transition_event
  /\ callLog = <<User("global_pre", 1), User("pre", 1), User("global_handlers", 1),
                 User("handlers", 1), User("post", 1), User("global_post", 1)>>

\* C5: when callables raise during a dispatch, every other registered
\* callable of the event is still invoked exactly once in the normal order.
C5_RaiseDoesNotSkipCallables ==
  (raisedAt # {}) =>
    /\ \A i \in raisedAt : i \in 1..Len(callLog)
    /\ \A i \in 1..Len(callLog) : callLog[i] = ExpectedCalls(reg, msg.event_type)[i]
    /\ Dispatched => Len(callLog) = Len(ExpectedCalls(reg, msg.event_type))

C5_Witness ==
  /\ Dispatched
  /\ raisedAt = {1, 3}
  /\ Len(callLog) = 6 * MaxHooks
  /\ callLog = ExpectedCalls(reg, msg.event_type)

\* ----------------------------------------------------------------------
\* Properties of the state synchronisation (specification SpecState)
\* ----------------------------------------------------------------------
\* C10: an update with an event whose type has a custom handler calls that
\* handler with (event_type, data) and applies no property mapping, also when
\* the payload carries the event key of a mapping.
C10_UpdateStep ==
  (stEvent'.event_type \in CustomEventTypes) =>
    /\ customCall' = <<[event_type |-> stEvent'.event_type, data |-> stEvent'.data]>>
    /\ gstate'.custom_handler_called
    /\ gstate'.meta.phase = gstate.meta.phase
    /\ gstate'.private_information = gstate.private_information
    /\ gstate'.public_information = gstate.public_information
C10_CustomHandlerReplacesMappings == [][C10_UpdateStep]_vars

C10_Witness ==
  /\ stEvent.event_type = "custom_event"
  /\ "phase" \in DOMAIN stEvent.data
  /\ stEvent.data["phase"] # gstate.meta.phase
  /\ gstate.meta.phase # 0
  /\ customCall = <<[event_type |-> "custom_event", data |-> stEvent.data]>>

\* the filter that a pair of lists stands for, and the values it accepts
FilterOf(allow, deny) ==
  IF allow.has THEN [kind |-> "Allow", set |-> allow.vals]
  ELSE IF deny.has THEN [kind |-> "Deny", set |-> deny.vals]
  ELSE [kind |-> "None", set |-> {}]
Accepts(filter, v) ==
  \/ filter.kind = "Allow" /\ v \in filter.set
  \/ filter.kind = "Deny" /\ v \notin filter.set
  \/ filter.kind = "None"

Target(mapping) == <<mapping.state_type, mapping.state_key>>
Targets == {Target(PropertyMaps[i]) : i \in DOMAIN PropertyMaps}
FieldOf(gs, target) ==
  IF target[1] = "meta" THEN gs.meta[target[2]]
  ELSE IF target[1] = "private" THEN gs.private_information[target[2]]
  ELSE gs.public_information[target[2]]

\* the phase of the snapshot when mapping i is considered: the phase mapping is
\* declared first and has no filter, so later mappings see the event's phase
PhaseSeenBy(i, gs, data) ==
  IF i > 1 /\ "phase" \in DOMAIN data THEN data["phase"] ELSE gs.meta.phase
Qualifies(i, gs, event) ==
  LET mapping == PropertyMaps[i]
  IN /\ Accepts(FilterOf(mapping.phases, mapping.exclude_phases), PhaseSeenBy(i, gs, event.data))
     /\ Accepts(FilterOf(mapping.events, mapping.exclude_events), event.event_type)
     /\ mapping.event_key \in DOMAIN event.data
LastOf(Q) == CHOOSE i \in Q : \A j \in Q : j <= i

\* C11: an update with an event that has no custom handler writes, for every
\* target, the payload value of the last declared mapping of that target whose
\* phase filter accepts the snapshot's phase, whose event filter accepts the
\* event type and whose event key is in the payload; a target without such a
\* mapping, and every field that is not a target, keeps its value.
C11_UpdateStep ==
  (stEvent'.event_type \notin CustomEventTypes) =>
    /\ \A target \in Targets :
         LET Q == {i \in DOMAIN PropertyMaps :
                     Target(PropertyMaps[i]) = target /\ Qualifies(i, gstate, stEvent')}
         IN FieldOf(gstate', target) =
              IF Q = {} THEN FieldOf(gstate, target)
              ELSE stEvent'.data[PropertyMaps[LastOf(Q)].event_key]
    /\ gstate'.meta.game_id = gstate.meta.game_id
    /\ gstate'.custom_handler_called = gstate.custom_handler_called
    /\ customCall' = << >>
C12_UpdateStep ==
  LET mapping == PropertyMaps[2]
      data == stEvent'.data
  IN /\ (stEvent'.event_type \notin mapping.events.vals) =>
          gstate'.private_information.wallet = gstate.private_information.wallet
     /\ (/\ stEvent'.event_type \in mapping.events.vals
         /\ mapping.event_key \in DOMAIN data
         /\ PhaseSeenBy(2, gstate, data) \in mapping.phases.vals) =>
          gstate'.private_information.wallet = data[mapping.event_key]
OneListPerFilter(m) ==
  /\ ~(m.phases.has /\ m.exclude_phases.has)
  /\ ~(m.events.has /\ m.exclude_events.has)
C22_DropStep ==
  (msg' # msg /\ msg' \in {NoMsg, ParseError}) =>
    /\ pc' = "recv"
    /\ callLog' = << >>
    /\ UNCHANGED <<inflight, reg, phaseVars, stateVars>>
C22_UnparseableFrameIsDropped == [][C22_DropStep]_vars

\* C23: only frames whose type is "event" are routed: a frame of any other
\* type, one that carries the transition event type included, starts no
\* dispatch, calls nothing and changes neither the phase machine nor the game
\* state; a dispatch in progress is always the dispatch of an "event" frame.
C23_RouteStep ==
  (msg' # msg /\ msg'.msg_type \notin {"event", NoMsg.msg_type, ParseError.msg_type}) =>
    /\ pc = "recv" /\ pc' = "recv"
    /\ callLog' = << >>
    /\ UNCHANGED <<inflight, reg, phaseVars, stateVars>>
C23_Routed == (pc = "dispatch" \/ callLog # << >>) => msg.msg_type = "event"
C23_OnlyEventFramesAreRouted == [][C23_RouteStep]_vars /\ []C23_Routed

C23_Witness ==
  /\ msg.msg_type = "notification"
  /\ msg.event_type = phase_transition_event
  /\ msg.data = ("phase" :> 1)
  /\ pc = "recv"
  /\ callLog = << >>
  /\ current_phase = 2
  /\ gstate.meta.phase = 2

\* C24: a dispatch never raises to its caller: whichever callables fail, the
\* transition handler and the phase action it awaits included, the dispatch
\* ends by returning to the receive loop, and the receive loop is ended only
\* while it waits for a frame, never by a callable.
C24_DispatchStep ==
  /\ (pc = "dispatch" /\ pc' # "dispatch") => (pc' = "recv" /\ inflight' = 0)
  /\ (pc # "closed" /\ pc' = "closed") => pc = "recv"
C24_DispatchNeverRaises == [][C24_DispatchStep]_vars

C24_Witness ==
  /\ pc = "recv"
  /\ msg.event_type = phase_transition_event
  /\ hstat = "raised"
  /\ action.payload = "raised"
  /\ Len(callLog) = 3
  /\ raisedAt = {2, 3}

\* C25: the receive loop handles each frame once, in the step that receives
\* it while the loop waits for a frame; it terminates only while waiting, and
\* only because the connection is closed or because an exception that is not
\* a closed connection reached the loop; a peer close ends it; once
\* terminated it is never running again.
C25_LoopStep ==
  /\ (msg' # msg \/ inflight' > inflight) =>
       (pc = "recv" /\ callLog' = << >> /\ inflight' <= inflight + 1)
  /\ (pc # "closed" /\ pc' = "closed") =>
       (pc = "recv" /\ (~wsOpen' \/ msg' = ParseError))
  /\ (wsOpen /\ ~wsOpen' /\ ~stopped') => pc' = "closed"
  /\ (pc = "closed") => pc' = "closed"
C25_ReceiveLoopTermination == [][C25_LoopStep]_vars

C25_Witness ==
  /\ pc = "closed"
  /\ ~wsOpen
  /\ ~stopped
  /\ msg.event_type = "round-result"
  /\ Len(callLog) = 2

\* C21: a loop task that has been cancelled, by a transition or by stop,
\* eventually terminates; it leaves the cancelled state only by terminating,
\* and the step in which it terminates changes nothing of the pipeline, of the
\* transition handler or of the session: no error reaches either of them.
C21_CancelStep ==
  \A t \in TaskIds :
    (tasks[t].st = "cancelled" /\ tasks'[t].st # "cancelled") =>
      /\ tasks'[t] = FreeTask
      /\ UNCHANGED <<pipeVars, hstat, current_phase, in_continuous_phase,
                     continuous_task, stateVars>>
C21_Terminates == \A t \in TaskIds : (tasks[t].st = "cancelled") ~> (tasks[t].st = "free")
C21_CancelledTaskTerminates == C21_Terminates /\ [][C21_CancelStep]_vars

C21_Witness ==
  \E t \in TaskIds :
    /\ tasks[t].st = "cancelled"
    /\ tasks[t].phase = 1
    /\ current_phase = 2
    /\ ~stopped

\* C26: connect() returns False only with the connection unset and the
\* receive loop never started; it returns True only when the socket was
\* opened and the login that authenticates the session was written.
C26_ConnectResult ==
  /\ (connected = "false") => (~ws /\ pc = "failed" /\ msg = NoMsg)
  /\ (connected = "true") =>
       /\ ws
       /\ \E i \in 1..Len(sendLog) :
            sendLog[i].text = Dumps(login_payload) /\ sendLog[i].outcome = "sent"

\* C27: send_message never raises: every call ends as sent or as swallowed,
\* it is swallowed when there is no connection or the connection is closed,
\* and the step of the call leaves current_phase, in_continuous_phase, the
\* continuous task and the registries as they were.
C27_SendStep ==
  (Len(sendLog') > Len(sendLog)) =>
    /\ sendLog'[Len(sendLog')].outcome \in {"sent", "swallowed"}
    /\ (~ws \/ ~wsOpen) => sendLog'[Len(sendLog')].outcome = "swallowed"
    /\ UNCHANGED <<current_phase, in_continuous_phase, continuous_task, tasks, reg>>
C27_NoSendRaised == \A i \in 1..Len(sendLog) : sendLog[i].outcome # "raised"
C27_SendNeverRaises == [][C27_SendStep]_vars /\ []C27_NoSendRaised

C27_Witness ==
  /\ Len(sendLog) = 2
  /\ sendLog[2] = [text |-> Dumps(ActionPayload), outcome |-> "swallowed"]
  /\ ~wsOpen
  /\ current_phase = 1
  /\ in_continuous_phase
  /\ continuous_task # NoTask

\* C28: stop() is idempotent: in every state of the session, before
\* connect, while connected, after the peer closed and after earlier stops,
\* stopping twice gives the state that stopping once gives; a later call made
\* in the state an earlier call left changes nothing but the count of calls.
C28_Idempotent == stop(stop(Session)) = stop(Session)
C28_StopStep ==
  (stop_calls' > stop_calls /\ stop_calls >= 1 /\ Session = stop(Session)) =>
    UNCHANGED <<pipeVars, phaseVars, stateVars, mapVars, actVars, connVars>>
C28_StopIsIdempotent == []C28_Idempotent /\ [][C28_StopStep]_vars

C28_Witness ==
  /\ stop_calls = 2
  /\ pc = "closed"
  /\ connected = "true"
  /\ \E t \in TaskIds : tasks[t].st = "cancelled" /\ tasks[t].cancels = 1

\* C29: the login is sent exactly once per connect() whose socket opened,
\* in the step between the opening of the socket and the return of connect(),
\* with the configured login payload as its content; nothing else sends it.
Logins == Len(SelectSeq(sendLog, LAMBDA e : e.text = Dumps(login_payload)))
C29_LoginStep ==
  /\ (pc = "login" /\ pc' # "login") =>
       /\ ws /\ connected = "pending" /\ connected' # "pending"
       /\ Len(sendLog') = Len(sendLog) + 1
       /\ sendLog'[Len(sendLog')].text.obj = login_payload
  /\ (Len(sendLog') > Len(sendLog) /\ sendLog'[Len(sendLog')].text.obj = login_payload) =>
       (pc = "login" /\ pc' # "login")
C29_LoginCount ==
  /\ (connected = "pending") => Logins = 0
  /\ (connected = "true") => Logins = 1
  /\ (connected = "false") => (Logins = 0 /\ ~ws)
C29_AuthenticatesOncePerConnect == [][C29_LoginStep]_vars /\ []C29_LoginCount

C29_Witness ==
  /\ connected = "true"
  /\ Len(sendLog) = 2
  /\ sendLog[1].text = Dumps(ActionPayload)
  /\ sendLog[2] = [text |-> Dumps(login_payload), outcome |-> "sent"]
  /\ pc = "recv"

\* C30: an unregister call with a target rebuilds the one list it names
\* without the target, every other callable of that list keeping its place
\* and order; a call without a target removes exactly that list; the lists of
\* the other event types of the scope and all other scopes are as before.
C30_UnregisterStep ==
  (regOp' # NoOp /\ (regOp' # regOp \/ reg' # reg)) =>
    \A s \in Scopes :
      IF s # regOp'.scope THEN reg'[s] = reg[s]
      ELSE IF s \in GlobalScopes
      THEN reg'[s] = IF regOp'.target = NoTarget THEN << >>
                     ELSE SelectSeq(reg[s], LAMBDA h : h # regOp'.target)
      ELSE /\ DOMAIN reg'[s] = IF regOp'.target = NoTarget
                               THEN DOMAIN reg[s] \ {regOp'.event_type}
                               ELSE DOMAIN reg[s]
           /\ \A e \in DOMAIN reg'[s] :
                reg'[s][e] = IF e = regOp'.event_type
                             THEN SelectSeq(reg[s][e], LAMBDA h : h # regOp'.target)
                             ELSE reg[s][e]
C30_UnregisterRemovesOnlyItsTarget == [][C30_UnregisterStep]_vars

C30_Witness ==
  /\ regOp = [scope |-> "handlers", event_type |-> phase_transition_event,
              target |-> User("app", 1)]
  /\ DOMAIN reg.handlers = EventTypes
  /\ reg.handlers[phase_transition_event] = <<User("app", 2)>>
  /\ reg.handlers["round-result"] = <<User("app", 1)>>
  /\ reg.global_handlers = <<User("app", 1)>>

\* C31: an update leaves unchanged every target none of whose mappings has its
\* event key in the payload; an event without a custom handler whose payload
\* carries no mapped key leaves the whole snapshot unchanged.
MappedKeys == {PropertyMaps[i].event_key : i \in DOMAIN PropertyMaps}
KeysOf(target) == {PropertyMaps[i].event_key : i \in {j \in DOMAIN PropertyMaps : Target(PropertyMaps[j]) = target}}
C31_UpdateStep ==
  ((stEvent' # stEvent \/ gstate' # gstate) /\ stEvent'.event_type \notin CustomEventTypes) =>
    /\ \A target \in Targets :
         (KeysOf(target) \cap DOMAIN stEvent'.data = {}) =>
           FieldOf(gstate', target) = FieldOf(gstate, target)
    /\ (MappedKeys \cap DOMAIN stEvent'.data = {}) => gstate' = gstate
C31_AbsentKeysChangeNothing == [][C31_UpdateStep]_vars

C31_Witness ==
  /\ DOMAIN stEvent.data = {"price"}
  /\ stEvent.event_type = "round-result"
  /\ gstate.meta.phase = 3
  /\ gstate.private_information.wallet = 2
  /\ gstate.public_information.price = 1

\* C32: for a game of n >= 1 phases run_experiment makes exactly n - 1 steps
\* and returns: every step advances the phase index by one, the index stays
\* in 0..n-1, next_phase changes nothing at the last phase, and is_finished
\* holds exactly when the index is n - 1.
C32_RunnerState ==
  (nphases >= 1) =>
    /\ rstat # "error"
    /\ current_phase_index \in 0..(nphases - 1)
    /\ is_finished(current_phase_index, nphases) <=> (current_phase_index = nphases - 1)
    /\ (rstat = "running") => (steps = current_phase_index)
    /\ (rstat = "finished") => (steps = nphases - 1)
C32_RunnerStep ==
  /\ (steps' # steps) =>
       (steps' = steps + 1 /\ current_phase_index' = current_phase_index + 1)
  /\ (next_calls' # next_calls /\ current_phase_index = nphases - 1) =>
       current_phase_index' = current_phase_index
  /\ (rstat = "finished") => (rstat' = "finished" /\ steps' = steps)
C32_RunnerMakesNMinusOneSteps == []C32_RunnerState /\ [][C32_RunnerStep]_vars

C32_Witness ==
  /\ nphases = 3
  /\ rstat = "finished"
  /\ steps = 2
  /\ current_phase_index = 2
  /\ next_calls = 1

\* C33: while a transition event is dispatched, the state update hook has run
\* before the transition handler is called, so whenever the phase action of
\* the transition is being executed the snapshot already holds the phase
\* carried by that event.
C33_StateSyncedBeforeTransition ==
  /\ \A i \in 1..Len(callLog) :
       (callLog[i] = TransitionHandler) =>
         \E j \in 1..(i - 1) : callLog[j] = UpdateStateHook
  /\ (pc = "dispatch" /\ hstat \in {"on_phase_end", "on_phase_start", "execute_phase_action"}) =>
       (phase_identifier_key \in DOMAIN msg.data => gstate.meta.phase = msg.data[phase_identifier_key])
  /\ (pc = "dispatch" /\ hstat = "execute_phase_action") =>
       (gstate.meta.phase = new_phase /\ action.phase = new_phase)

C33_Witness ==
  /\ pc = "dispatch"
  /\ hstat = "execute_phase_action"
  /\ old_phase = 1
  /\ new_phase = 2
  /\ gstate.meta.phase = 2
  /\ callLog = <<UpdateStateHook, TransitionHandler>>

\* C34: once the receive loop has ended because the peer closed the
\* connection (and stop() has not been called), no loop task begins a phase
\* action any more.
C34_AfterCloseStep ==
  (pc = "closed" /\ ~wsOpen /\ ~stopped) =>
    \A t \in TaskIds : (tasks'[t].st = "acting") => (tasks[t].st = "acting")
C34_NoActionAfterPeerClose == [][C34_AfterCloseStep]_vars

\* C35: when on_phase_end or on_phase_start raised while the transition to
\* new_phase was handled (and stop() has not been called), current_phase is
\* new_phase, the phase action of new_phase was started, and, for a
\* continuous new_phase, its loop task was created.
HookRaised == hstat = "raised" /\ action.payload # "raised"
C35_HookFailureIsolated ==
  (HookRaised /\ ~stopped) =>
    /\ current_phase = new_phase
    /\ (new_phase # NoPhase) =>
         \E i \in 1..Len(phaseLog) : phaseLog[i] = Entry("execute_phase_action", new_phase)
    /\ (new_phase \in continuous_phases) =>
         \E i \in 1..Len(phaseLog) : phaseLog[i] = Entry("create_task", new_phase)

\* ----------------------------------------------------------------------
\* The legacy manager and the PhaseManager (specification SpecManagers)
\* ----------------------------------------------------------------------
\* C36: once both managers have handled the same transition events, they
\* agree on the current phase, on the continuous flag and on the sequence of
\* phases for which an action was executed while handling those events.
C36_ManagersAgree ==
  (evt.pm_done /\ evt.legacy_done) =>
    /\ pm.current_phase = legacy.current_phase
    /\ pm.in_continuous_phase = legacy.in_continuous_phase
    /\ pm.actions = legacy.actions

\* both have handled a transition to a continuous phase, a repetition of it
\* or a null transition, and then a transition to a discrete phase
C36_Witness ==
  /\ evt.pm_done /\ evt.legacy_done
  /\ Len(legacy.actions) >= 2
  /\ legacy.actions[1] \in continuous_phases
  /\ legacy.actions[Len(legacy.actions)] \notin continuous_phases
  /\ ~legacy.in_continuous_phase
  /\ pm.current_phase = legacy.actions[Len(legacy.actions)]

\* ----------------------------------------------------------------------
\* Overlap of phase actions (specification Spec)
\* ----------------------------------------------------------------------
\* C37: at most one execute_phase_action call is in progress at any instant:
\* the calls awaited by loop tasks and the call awaited by
\* handle_phase_transition together are at most one.
ActionsInProgress ==
  Cardinality({t \in TaskIds : tasks[t].st = "acting"})
  + (IF hstat = "execute_phase_action" THEN 1 ELSE 0)
C37_OneActionAtATime == ActionsInProgress <= 1

\* ----------------------------------------------------------------------
\* The phase seen by the phase filters (specification SpecState)
\* ----------------------------------------------------------------------
\* C38: within one update each mapping's phase filter is evaluated against the
\* snapshot's phase as it is when the mapping is reached. The phase mapping is
\* declared first, so for an event that carries a phase the later mappings are
\* filtered against that phase, whatever phase was held before the event:
\* wallet (phases [1, 2], round-result events) and price (exclude_phases [2])
\* are written exactly when the event's phase passes their filter.
C38_UpdateStep ==
  LET data == stEvent'.data
  IN (stEvent'.event_type \in EventTypes /\ "phase" \in DOMAIN data) =>
       /\ gstate'.meta.phase = data["phase"]
       /\ (stEvent'.event_type = "round-result" /\ "wallet" \in DOMAIN data) =>
            gstate'.private_information.wallet =
              IF data["phase"] \in {1, 2} THEN data["wallet"]
              ELSE gstate.private_information.wallet
       /\ ("price" \in DOMAIN data /\ "wallet" \notin DOMAIN data) =>
            gstate'.public_information.price =
              IF data["phase"] # 2 THEN data["price"]
              ELSE gstate.public_information.price
C38_FiltersSeeThePhaseJustWritten == [][C38_UpdateStep]_vars

\* the snapshot was in phase 2, where price is excluded; an event moved it to
\* phase 3 and its price was written in the same update
C38_Witness ==
  /\ stEvent.event_type = "round-result"
  /\ DOMAIN stEvent.data = {"phase", "price"}
  /\ stEvent.data["phase"] = 3
  /\ gstate.meta.phase = 3
  /\ gstate.public_information.price = stEvent.data["price"]
  /\ gstate.public_information.price # gstate.private_information.wallet
  /\ gstate.private_information.wallet # 0

\* ----------------------------------------------------------------------
\* Properties of the settings (specification SpecSettings)
\* ----------------------------------------------------------------------
StateHooks(r) == {i \in 1..Len(r["global_pre"]) : r["global_pre"][i] = UpdateStateHook}

\* C39: whatever values were assigned to the state of the manager, the
\* state-synchronisation hook is at most once among the global pre-hooks.
C39_StateHookRegisteredOnce == Cardinality(StateHooks(reg)) <= 1

\* C40: an assignment that changes the transition event type from E1 to E2
\* leaves the transition handler registered for E2 and not for E1, and leaves
\* the other handlers of E1 registered for E1, in their order.
C40_ChangeStep ==
  (transition_event' # transition_event /\ transition_event # "") =>
    /\ \E i \in 1..Len(Keyed(reg', "handlers", transition_event')) :
         Keyed(reg', "handlers", transition_event')[i] = TransitionHandler
    /\ \A i \in 1..Len(Keyed(reg', "handlers", transition_event)) :
         Keyed(reg', "handlers", transition_event)[i] # TransitionHandler
    /\ Keyed(reg', "handlers", transition_event)
         = Without(Keyed(reg, "handlers", transition_event), TransitionHandler)
C40_ChangeMovesOnlyTransitionHandler == [][C40_ChangeStep]_vars

====
